---- MODULE Spec2Model ----
(***************************************************************************)
(* garnerd: the shared-memory fan-out pipeline (buffers/shmem.py,          *)
(* hashing/hasher.py) and the content-addressed directory store            *)
(* (filestore/directory.py).                                               *)
(*                                                                         *)
(* PipeSpec  : one SHMHasher.hash_file run followed by the drop of the     *)
(*             runtime.  The peer loops (FileReadingProcessor and the      *)
(*             SHMProcessor consumers) are not part of the sources; they   *)
(*             follow sections 4.4 / 4.5 of the specification and call the *)
(*             buffer operations of shmem.py.                              *)
(* StoreSpec : concurrent add_file / remove_file callers on one            *)
(*             destination path of a DirectoryFileStore.                   *)
(* PathSpec  : one call of file_path or of size_to_basex.                  *)
(* BufSpec   : the public operations of SHMFanoutBuffer and SHMBufferSync  *)
(*             on one region, called by its creator and by an attacher.    *)
(***************************************************************************)
EXTENDS Integers, Sequences, FiniteSets, TLC

----------------------------------------------------------------------------
(* Bounds of the model *)

MaxBufferCount == 3
MaxFileSize == 2
BufferSize == 1
MaxWorkers == 3
MaxArgs == 1
MaxCallers == 2
MaxSize == 1
MaxFiles == 1
MaxKeyLen == 3
MaxDepth == 2
MaxPathSize == 2
MaxEncode == 1100
BufCap == 1
MaxViews == 1

(* calcsize("Q"): width of the in-band length header *)
SzWidth == 8

Min(a, b) == IF a < b THEN a ELSE b
Max(a, b) == IF a > b THEN a ELSE b

----------------------------------------------------------------------------
(* buffers/shmem.py : SHMFanoutBuffer on a region of SzWidth + size bytes *)

RECURSIVE Digit(_, _)
Digit(v, i) == IF i = 1 THEN v % 256 ELSE Digit(v \div 256, i - 1)

(* pack_into("Q", buf, 0, v): the 8 header bytes, least significant first *)
pack_into(m, v) ==
    [i \in 1..Len(m) |-> IF i <= SzWidth THEN Digit(v, i) ELSE m[i]]

RECURSIVE UnpackFrom(_, _)
UnpackFrom(m, i) ==
    IF i > SzWidth THEN 0 ELSE m[i] + 256 * UnpackFrom(m, i + 1)

(* unpack_from("Q", buf, 0)[0] *)
unpack_from(m) == UnpackFrom(m, 1)

(* Python slice bounds of buf[lo:hi] on a sequence of length n (0-based,   *)
(* half open, clamped, a negative index counting from the end); the slice  *)
(* is empty when hi <= lo.                                                 *)
SliceIndex(i, n) == IF i < 0 THEN Max(n + i, 0) ELSE Min(i, n)
SliceLo(lo, n) == SliceIndex(lo, n)
SliceHi(lo, hi, n) == Max(SliceIndex(hi, n), SliceIndex(lo, n))
SliceLen(lo, hi, n) == SliceHi(lo, hi, n) - SliceLo(lo, n)

(* buf[lo:hi] *)
PySlice(m, lo, hi) == SubSeq(m, SliceLo(lo, Len(m)) + 1, SliceHi(lo, hi, Len(m)))

(* self._max = self._shmem.size - self._sz_width *)
MaxOf(m) == Len(m) - SzWidth

(* A fresh region: zero filled, header 0 *)
NewRegion(size) == [i \in 1..(size + SzWidth) |-> 0]

(* save_size(): pack self._size into the header *)
save_size(m, sz) == pack_into(m, sz)

(* load_size(): the handle's _size becomes the header's value *)
load_size(m) == unpack_from(m)

(* save_bytes(data): buf[_sz_width:addlen] = data[:addlen]; a memoryview    *)
(* slice assignment of a different length raises ValueError and writes     *)
(* nothing.  Result: ok, the region, the handle's _size, the return value. *)
save_bytes(m, sz, data) ==
    LET addlen == Min(Len(data), MaxOf(m))
        lo == SliceLo(SzWidth, Len(m))
        n == SliceLen(SzWidth, addlen, Len(m))
    IN  IF n # addlen
        THEN [ok |-> FALSE, mem |-> m, size |-> sz, ret |-> 0]
        ELSE LET copied == [i \in 1..Len(m) |->
                               IF i > lo /\ i <= lo + n THEN data[i - lo] ELSE m[i]]
             IN  [ok |-> TRUE, mem |-> save_size(copied, addlen),
                  size |-> addlen, ret |-> addlen]

(* snapshot(): buf[_sz_width:_size] *)
snapshot(m, sz) == PySlice(m, SzWidth, sz)

----------------------------------------------------------------------------
(* SHMFanoutBuffer.close / unlink on a handle [created, closed, unlinked,   *)
(* views, nobuf] and the operating system's view of the region             *)
(* [registered, unlinks, detaches]: result is the pair [h, os].  views is   *)
(* the number of snapshots of the handle that its caller still holds;      *)
(* nobuf says that the SharedMemory object has given up its buf.           *)

NewHandle(create) == [created |-> create, closed |-> FALSE, unlinked |-> FALSE,
                      views |-> 0, nobuf |-> FALSE]
NewShm == [registered |-> TRUE, unlinks |-> 0, detaches |-> 0]

(* close() raises: SharedMemory.close() cannot close the mapping while a    *)
(* snapshot taken from it is alive (BufferError)                            *)
CloseRaises(h) == ~h.closed /\ h.views > 0

(* close(): release the view and close the mapping once.  When it raises,   *)
(* the buf is gone but the mapping stays and _closed stays False.           *)
close(h, os) ==
    IF h.closed THEN [h |-> h, os |-> os]
    ELSE IF CloseRaises(h)
    THEN [h |-> [h EXCEPT !.nobuf = TRUE], os |-> os]
    ELSE [h |-> [h EXCEPT !.closed = TRUE, !.nobuf = TRUE],
          os |-> [os EXCEPT !.detaches = @ + 1]]

(* unlink() without the _unlinked flag: every call unlinks *)
unlink_unguarded(h, os) ==
    IF h.created
    THEN [h |-> [h EXCEPT !.unlinked = TRUE],
          os |-> [os EXCEPT !.registered = FALSE, !.unlinks = @ + 1]]
    ELSE [h |-> h, os |-> os]

(* unlink(): only the creator, only once *)
unlink(h, os) ==
    IF ~h.unlinked /\ h.created
    THEN [h |-> [h EXCEPT !.unlinked = TRUE],
          os |-> [os EXCEPT !.registered = FALSE, !.unlinks = @ + 1]]
    ELSE [h |-> h, os |-> os]

(* b.close(); b.unlink() as SHMHasher.__del__ and SHMFanoutBuffer.__del__  *)
(* both do; an exception of close() ends the sequence                      *)
close_unlink(h, os) ==
    IF CloseRaises(h) THEN close(h, os)
    ELSE unlink(close(h, os).h, close(h, os).os)

----------------------------------------------------------------------------
(* hashing/hasher.py : reports are dicts, here functions from keys to      *)
(* integers                                                                *)

EmptyDict == [k \in {} |-> 0]

(* dict.update *)
update(r, d) == [k \in (DOMAIN r) \cup (DOMAIN d) |-> IF k \in DOMAIN d THEN d[k] ELSE r[k]]

(* a get that never finds the key *)
get_default(d, k, default) == default

(* d.get(key, default) *)
get(d, k, default) == IF k \in DOMAIN d THEN d[k] ELSE default

(* HashingConfig.system_hashers *)
system_hashers == {"md5", "sha1", "sha256", "sha224", "sha384", "sha512"}

(* Labels a caller may pass: valid ones and one the system does not have *)
ArgLabels == {"md5", "crc32"}

RECURSIVE SeqsUpTo(_, _)
SeqsUpTo(S, n) ==
    IF n = 0 THEN {<<>>}
    ELSE SeqsUpTo(S, n - 1) \cup {Append(s, x) : s \in {t \in SeqsUpTo(S, n - 1) : Len(t) = n - 1}, x \in S}

IsValidLabel(l) == l \in system_hashers

(* processor_list of hash_file: the classifier if magic or mime is wanted,  *)
(* then one HashingProcessor per label the constructor accepts             *)
processor_list(magic, mime, args) ==
    (IF magic \/ mime THEN <<"magic">> ELSE <<>>) \o SelectSeq(args, IsValidLabel)

(* SHMHasher.__init__: buffer_count = max(buffer_count, 2) *)
PoolSize(buffer_count) == Max(buffer_count, 2)

----------------------------------------------------------------------------
(* State of one hash_file run *)

VARIABLES
    cfg,        \* the call: buffer_count, file_size, file_magic, file_mime, args,
                \* workers (processes of the executor), faulty consumer and its fault
    mem,        \* mem[b]: the bytes of shared region b (header, then payload)
    creator,    \* creator[b]: the runtime's SHMFanoutBuffer handle of region b
    shm,        \* shm[b]: the operating system's record of region b
    barrier,    \* barrier[b]: parties that arrived, parties being released
    pc,         \* pc[p]: position of peer p (0 the reader, 1..N the consumers)
    rnd,        \* rnd[p]: the round peer p is in
    hsize,      \* hsize[p]: the _size of peer p's handle of its current buffer
    offset,     \* the reader's position in the source file
    total,      \* total[p]: bytes peer p counted
    last,       \* length of the chunk the reader read last
    failing,    \* the reader faulted and is publishing a terminal chunk
    emitted,    \* lengths of the chunks the reader published, in order
    observed,   \* observed[c]: lengths of the chunks consumer c observed, in order
    holding,    \* holding[c]: the buffer whose snapshot consumer c holds, or 0
    result,     \* result[p]: what peer p's future holds
    hf,         \* hash_file: its position, the merged report, the futures handled
    life        \* the runtime object: "alive", "deleted", and the buffers dropped

pipeVars == <<cfg, mem, creator, shm, barrier, pc, rnd, hsize, offset, total, last,
              failing, emitted, observed, holding, result, hf, life>>

(* State of the directory store and of its callers (see the store section) *)

VARIABLES
    store,      \* _stored, the size S of the key, whether dst's parent directory
                \* exists, whether the installed filelock creates missing parents,
                \* max_files, max_file_size, the files stored under other keys,
                \* and how a call of init_store ended
    inode,      \* inode[i]: content length of inode i
    flock,      \* flock[i]: holder of the lock on inode i, or 0
    dst,        \* the inode at the destination path, or 0
    dstlock,    \* the inode at the path "<dst>.lock", or 0
    src,        \* src[c]: the inode at caller c's source path, or 0
    op,         \* op[c]: the call caller c makes
    cpc,        \* cpc[c]: position of caller c in its call
    held,       \* held[c]: the inode caller c holds locked, or 0
    tmp,        \* tmp[c]: the value of _stored caller c loaded
    exc,        \* exc[c]: the exception leaving the with block, or "none"
    ret,        \* ret[c]: what the call returned or raised
    committed,  \* callers whose call changed the stored files: an add_file whose
                \* source was renamed onto the destination, a remove_file that
                \* unlinked the destination
    base        \* base[c]: what caller c found when its call began

storeVars == <<store, inode, flock, dst, dstlock, src, op, cpc, held, tmp, exc, ret,
               committed, base>>

(* State of one file_path or size_to_basex call (see the path section) *)

VARIABLES
    fpcall,     \* the call: the function, path_key, dir_depth of the store, file_size
    fpout,      \* what the call gave: the error raised or the path / the string
    fpagain,    \* what a second file_path call with the same arguments gave
    enumout     \* what iterating enum_sub_dirs() gave: the error raised, the paths yielded

pathVars == <<fpcall, fpout, fpagain, enumout>>

(* State of one shared buffer and its handles (see the buffer section) *)

VARIABLES
    bmem,       \* the bytes of the region (header, then payload)
    bh,         \* bh[h]: the SHMFanoutBuffer handle h (1 the creator, 2 an attacher)
    bsize,      \* bsize[h]: the _size of handle h
    blife,      \* blife[h]: "none" (not constructed), "live", "dropped"
    bos,        \* the operating system's record of the region
    bsync,      \* the SHMBufferSync of the attacher: its _buffer, whether dropped
    bres        \* the last call on a handle and what it gave

bufVars == <<bmem, bh, bsize, blife, bos, bsync, bres>>

vars == <<pipeVars, storeVars, pathVars, bufVars>>

Procs == processor_list(cfg.file_magic, cfg.file_mime, cfg.args)
Consumers == 1..Len(Procs)
Peers == 0..Len(Procs)
Buffers == 1..PoolSize(cfg.buffer_count)

(* max_threads = len(processor_list) + 1; mgr.Barrier(max_threads) *)
max_threads == Len(Procs) + 1

(* the buffer of round r: the pool is rotated round-robin *)
BufOf(r) == (r % PoolSize(cfg.buffer_count)) + 1

Pending == [kind |-> "pending", d |-> EmptyDict]
Raised == [kind |-> "exc", d |-> EmptyDict]
Returned(d) == [kind |-> "report", d |-> d]
ReturnedNone == [kind |-> "none", d |-> EmptyDict]

Faults == {"nowait", "short", "none"}

(* The calls of the model: every pool size request, file size, label list,   *)
(* classifier choice and executor size within the bounds; at most one        *)
(* consumer is a faulty one.                                                 *)
Calls ==
    {c \in [buffer_count : 1..MaxBufferCount,
            file_size : 0..MaxFileSize,
            file_magic : BOOLEAN,
            file_mime : BOOLEAN,
            args : SeqsUpTo(ArgLabels, MaxArgs),
            workers : 1..MaxWorkers,
            faulty : 0..(MaxArgs + 1),
            fault : Faults \cup {"ok"}] :
        /\ c.faulty <= Len(processor_list(c.file_magic, c.file_mime, c.args))
        /\ (c.faulty = 0) <=> (c.fault = "ok")}

(* SHMHasher.__init__ and the setup of hash_file up to the submits *)
PipeInit ==
    /\ cfg \in Calls
    /\ mem = [b \in Buffers |-> NewRegion(BufferSize)]
    /\ creator = [b \in Buffers |-> NewHandle(TRUE)]
    /\ shm = [b \in Buffers |-> NewShm]
    /\ barrier = [b \in Buffers |-> [arrived |-> {}, draining |-> {}]]
    /\ pc = [p \in Peers |-> "queued"]
    /\ rnd = [p \in Peers |-> 0]
    /\ hsize = [p \in Peers |-> 0]
    /\ offset = 0
    /\ total = [p \in Peers |-> 0]
    /\ last = 0
    /\ failing = FALSE
    /\ emitted = <<>>
    /\ observed = [c \in Consumers |-> <<>>]
    /\ holding = [c \in Consumers |-> 0]
    /\ result = [p \in Peers |-> Pending]
    /\ hf = [pc |-> "await_reader", report |-> EmptyDict, collected |-> {}, err |-> "none"]
    /\ life = [state |-> "alive", dropped |-> {}]

----------------------------------------------------------------------------
(* The executor: ProcessPoolExecutor() runs at most cfg.workers submitted   *)
(* calls at a time, in the order of their submission (reader first).        *)

Running == {p \in Peers : pc[p] \notin {"queued", "done"}}

PeerStart(p) ==
    /\ pc[p] = "queued"
    /\ \A q \in Peers : q < p => pc[q] # "queued"
    /\ Cardinality(Running) < cfg.workers
    /\ pc' = [pc EXCEPT ![p] = IF p = 0 THEN "fill" ELSE "wait"]
    /\ UNCHANGED <<storeVars, pathVars, bufVars>>
    /\ UNCHANGED <<cfg, mem, creator, shm, barrier, rnd, hsize, offset, total, last,
                   failing, emitted, observed, holding, result, hf, life>>

----------------------------------------------------------------------------
(* The producer (section 4.4), on the buffer operations of shmem.py *)

(* the bytes of the source file from offset on, at most the capacity: byte  *)
(* i of the file has value i                                                *)
ReadChunk(m) ==
    LET n == Min(MaxOf(m), cfg.file_size - offset)
    IN  [i \in 1..n |-> offset + i]

ReaderReport == ("size" :> total[0]) @@ ("path" :> 1)

(* steps 1 and 2: read up to capacity bytes and write them into the buffer  *)
ReaderFill ==
    LET b == BufOf(rnd[0])
        data == ReadChunk(mem[b])
        w == save_bytes(mem[b], hsize[0], data)
    IN  /\ pc[0] = "fill"
        /\ w.ok
        /\ w.ret = Len(data)
        /\ mem' = [mem EXCEPT ![b] = w.mem]
        /\ hsize' = [hsize EXCEPT ![0] = w.size]
        /\ last' = Len(data)
        /\ offset' = offset + Len(data)
        /\ total' = [total EXCEPT ![0] = @ + Len(data)]
        /\ emitted' = Append(emitted, Len(data))
        /\ pc' = [pc EXCEPT ![0] = "wait"]
        /\ UNCHANGED <<storeVars, pathVars, bufVars>>
        /\ UNCHANGED <<cfg, creator, shm, barrier, rnd, failing, observed, holding,
                       result, hf, life>>

(* the write faults (or truncates): the reader aborts with the error ...    *)
ReaderAbort ==
    LET b == BufOf(rnd[0])
        data == ReadChunk(mem[b])
        w == save_bytes(mem[b], hsize[0], data)
    IN  /\ pc[0] = "fill"
        /\ ~w.ok \/ w.ret # Len(data)
        /\ pc' = [pc EXCEPT ![0] = "done"]
        /\ result' = [result EXCEPT ![0] = Raised]
        /\ UNCHANGED <<storeVars, pathVars, bufVars>>
        /\ UNCHANGED <<cfg, mem, creator, shm, barrier, rnd, hsize, offset, total, last,
                       failing, emitted, observed, holding, hf, life>>

(* ... or, if it can, still publishes a zero-length terminal chunk and      *)
(* trips the barrier before it aborts                                       *)
ReaderAbortTerminal ==
    LET b == BufOf(rnd[0])
        data == ReadChunk(mem[b])
        w == save_bytes(mem[b], hsize[0], data)
        t == save_bytes(mem[b], hsize[0], <<>>)
    IN  /\ pc[0] = "fill"
        /\ ~w.ok \/ w.ret # Len(data)
        /\ t.ok
        /\ mem' = [mem EXCEPT ![b] = t.mem]
        /\ hsize' = [hsize EXCEPT ![0] = t.size]
        /\ last' = 0
        /\ failing' = TRUE
        /\ emitted' = Append(emitted, 0)
        /\ pc' = [pc EXCEPT ![0] = "wait"]
        /\ UNCHANGED <<storeVars, pathVars, bufVars>>
        /\ UNCHANGED <<cfg, creator, shm, barrier, rnd, offset, total, observed, holding,
                       result, hf, life>>

----------------------------------------------------------------------------
(* SHMBufferSync.wait: self.barrier.wait(timeout=self.timeout).  hash_file  *)
(* builds every synchronizer as SHMBufferSync(x.name, None), so timeout is  *)
(* None and the wait has no other exit than the trip of the barrier.        *)

(* a barrier that lets every arriving party through at once *)
Trip_early(bar, p) == [arrived |-> {}, draining |-> bar.arrived \cup {p}]

Trip(bar, p) ==
    IF Cardinality(bar.arrived \cup {p}) = max_threads
    THEN [arrived |-> {}, draining |-> bar.arrived \cup {p}]
    ELSE [arrived |-> bar.arrived \cup {p}, draining |-> bar.draining]

wait(p) ==
    LET b == BufOf(rnd[p])
    IN  /\ pc[p] = "wait"
        /\ ~(p = cfg.faulty /\ cfg.fault = "nowait")
        /\ barrier[b].draining = {}
        /\ barrier' = [barrier EXCEPT ![b] = Trip(@, p)]
        /\ pc' = [pc EXCEPT ![p] = "passing"]
        /\ UNCHANGED <<storeVars, pathVars, bufVars>>
        /\ UNCHANGED <<cfg, mem, creator, shm, rnd, hsize, offset, total, last, failing,
                       emitted, observed, holding, result, hf, life>>

(* the reader leaves the barrier: step 4, exit after the terminal chunk *)
ReaderLeave ==
    LET b == BufOf(rnd[0])
    IN  /\ pc[0] = "passing"
        /\ 0 \in barrier[b].draining
        /\ barrier' = [barrier EXCEPT ![b].draining = @ \ {0}]
        /\ IF last = 0
           THEN /\ pc' = [pc EXCEPT ![0] = "done"]
                /\ result' = [result EXCEPT ![0] =
                                 IF failing THEN Raised ELSE Returned(ReaderReport)]
                /\ rnd' = rnd
           ELSE /\ pc' = [pc EXCEPT ![0] = "fill"]
                /\ rnd' = [rnd EXCEPT ![0] = @ + 1]
                /\ result' = result
        /\ UNCHANGED <<storeVars, pathVars, bufVars>>
        /\ UNCHANGED <<cfg, mem, creator, shm, hsize, offset, total, last, failing,
                       emitted, observed, holding, hf, life>>

----------------------------------------------------------------------------
(* The consumers (section 4.5) *)

ConsumerLeave(c) ==
    LET b == BufOf(rnd[c])
    IN  /\ c \in Consumers
        /\ pc[c] = "passing"
        /\ c \in barrier[b].draining
        /\ barrier' = [barrier EXCEPT ![b].draining = @ \ {c}]
        /\ pc' = [pc EXCEPT ![c] = "snap"]
        /\ UNCHANGED <<storeVars, pathVars, bufVars>>
        /\ UNCHANGED <<cfg, mem, creator, shm, rnd, hsize, offset, total, last, failing,
                       emitted, observed, holding, result, hf, life>>

(* step 2: load_bytes(), i.e. load_size() and snapshot(): a view, not a copy *)
ConsumerSnap(c) ==
    LET b == BufOf(rnd[c])
    IN  /\ c \in Consumers
        /\ pc[c] = "snap"
        /\ hsize' = [hsize EXCEPT ![c] = load_size(mem[b])]
        /\ holding' = [holding EXCEPT ![c] = b]
        /\ pc' = [pc EXCEPT ![c] = "process"]
        /\ UNCHANGED <<storeVars, pathVars, bufVars>>
        /\ UNCHANGED <<cfg, mem, creator, shm, barrier, rnd, offset, total, last, failing,
                       emitted, observed, result, hf, life>>

(* what a consumer reports: its byte count and its own keys; a faulty one   *)
(* reports one byte less, or nothing                                        *)
OwnKeys(c) ==
    IF Procs[c] = "magic"
    THEN {k \in {"magic", "mime"} : (k = "magic" /\ cfg.file_magic) \/ (k = "mime" /\ cfg.file_mime)}
    ELSE {Procs[c]}

ConsumerReport(c, n) ==
    IF c = cfg.faulty /\ cfg.fault = "none" THEN ReturnedNone
    ELSE Returned([k \in OwnKeys(c) \cup {"size"} |->
                      IF k = "size"
                      THEN (IF c = cfg.faulty /\ cfg.fault = "short" THEN n - 1 ELSE n)
                      ELSE 1])

(* steps 3 and 4: a zero length is the terminal chunk; otherwise the bytes  *)
(* of the snapshot are processed and the consumer moves to the next buffer  *)
ConsumerProcess(c) ==
    LET b == BufOf(rnd[c])
        view == snapshot(mem[b], hsize[c])
    IN  /\ c \in Consumers
        /\ pc[c] = "process"
        /\ observed' = [observed EXCEPT ![c] = Append(@, hsize[c])]
        /\ holding' = [holding EXCEPT ![c] = 0]
        /\ IF hsize[c] = 0
           THEN /\ pc' = [pc EXCEPT ![c] = "done"]
                /\ result' = [result EXCEPT ![c] = ConsumerReport(c, total[c])]
                /\ UNCHANGED <<rnd, total>>
           ELSE /\ pc' = [pc EXCEPT ![c] = "wait"]
                /\ rnd' = [rnd EXCEPT ![c] = @ + 1]
                /\ total' = [total EXCEPT ![c] = @ + Len(view)]
                /\ result' = result
        /\ UNCHANGED <<storeVars, pathVars, bufVars>>
        /\ UNCHANGED <<cfg, mem, creator, shm, barrier, hsize, offset, last, failing,
                       emitted, hf, life>>

(* a peer that faults before it reaches the barrier *)
ConsumerFault(c) ==
    /\ c \in Consumers
    /\ pc[c] = "wait"
    /\ c = cfg.faulty /\ cfg.fault = "nowait"
    /\ pc' = [pc EXCEPT ![c] = "done"]
    /\ result' = [result EXCEPT ![c] = Raised]
    /\ UNCHANGED <<storeVars, pathVars, bufVars>>
    /\ UNCHANGED <<cfg, mem, creator, shm, barrier, rnd, hsize, offset, total, last,
                   failing, emitted, observed, holding, hf, life>>

----------------------------------------------------------------------------
(* SHMHasher.hash_file after the submits *)

(* report = reader.result(): blocks until the reader's call ended; its      *)
(* exception is raised here                                                 *)
HfReader ==
    /\ hf.pc = "await_reader"
    /\ pc[0] = "done"
    /\ hf' = IF result[0].kind = "exc"
             THEN [hf EXCEPT !.pc = "failed", !.err = "reader"]
             ELSE [hf EXCEPT !.pc = "collect", !.report = result[0].d]
    /\ UNCHANGED <<storeVars, pathVars, bufVars>>
    /\ UNCHANGED <<cfg, mem, creator, shm, barrier, pc, rnd, hsize, offset, total, last,
                   failing, emitted, observed, holding, result, life>>

(* the body of the loop over futures.as_completed(futures_list) for one     *)
(* finished consumer; Merge_unchecked is the loop without the comparison    *)
(* of sizes                                                                 *)
Merge_unchecked(h, r) ==
    IF r.kind = "exc" THEN [h EXCEPT !.pc = "failed", !.err = "worker"]
    ELSE IF r.kind = "none" THEN [h EXCEPT !.pc = "failed", !.err = "none"]
    ELSE [h EXCEPT !.report = update(@, r.d)]

Merge(h, r) ==
    IF r.kind = "exc" THEN [h EXCEPT !.pc = "failed", !.err = "worker"]
    ELSE IF r.kind = "none" THEN [h EXCEPT !.pc = "failed", !.err = "none"]
    ELSE IF get(r.d, "size", 0) = h.report["size"]
         THEN [h EXCEPT !.report = update(@, r.d)]
         ELSE [h EXCEPT !.pc = "failed", !.err = "mismatch"]

HfCollect(c) ==
    /\ hf.pc = "collect"
    /\ c \in Consumers \ hf.collected
    /\ pc[c] = "done"
    /\ hf' = [Merge(hf, result[c]) EXCEPT !.collected = @ \cup {c}]
    /\ UNCHANGED <<storeVars, pathVars, bufVars>>
    /\ UNCHANGED <<cfg, mem, creator, shm, barrier, pc, rnd, hsize, offset, total, last,
                   failing, emitted, observed, holding, result, life>>

(* the end of the with block: executor.shutdown(wait=True) joins every      *)
(* submitted call, then the report is returned or the exception raised      *)
HfReturn ==
    /\ hf.pc = "collect"
    /\ hf.collected = Consumers
    /\ \A p \in Peers : pc[p] = "done"
    /\ hf' = [hf EXCEPT !.pc = "returned"]
    /\ UNCHANGED <<storeVars, pathVars, bufVars>>
    /\ UNCHANGED <<cfg, mem, creator, shm, barrier, pc, rnd, hsize, offset, total, last,
                   failing, emitted, observed, holding, result, life>>

HfRaise ==
    /\ hf.pc = "failed"
    /\ \A p \in Peers : pc[p] = "done"
    /\ hf' = [hf EXCEPT !.pc = "raised"]
    /\ UNCHANGED <<storeVars, pathVars, bufVars>>
    /\ UNCHANGED <<cfg, mem, creator, shm, barrier, pc, rnd, hsize, offset, total, last,
                   failing, emitted, observed, holding, result, life>>

----------------------------------------------------------------------------
(* The drop of the runtime: SHMHasher.__del__ closes and unlinks every      *)
(* buffer of the pool; then each SHMFanoutBuffer is dropped in turn and its *)
(* own __del__ closes and unlinks again.                                    *)

HasherDel ==
    /\ hf.pc \in {"returned", "raised"}
    /\ life.state = "alive"
    /\ creator' = [b \in Buffers |-> close_unlink(creator[b], shm[b]).h]
    /\ shm' = [b \in Buffers |-> close_unlink(creator[b], shm[b]).os]
    /\ life' = [life EXCEPT !.state = "deleted"]
    /\ UNCHANGED <<storeVars, pathVars, bufVars>>
    /\ UNCHANGED <<cfg, mem, barrier, pc, rnd, hsize, offset, total, last, failing,
                   emitted, observed, holding, result, hf>>

BufferDel(b) ==
    /\ life.state = "deleted"
    /\ b \in Buffers \ life.dropped
    /\ creator' = [creator EXCEPT ![b] = close_unlink(creator[b], shm[b]).h]
    /\ shm' = [shm EXCEPT ![b] = close_unlink(creator[b], shm[b]).os]
    /\ life' = [life EXCEPT !.dropped = @ \cup {b}]
    /\ UNCHANGED <<storeVars, pathVars, bufVars>>
    /\ UNCHANGED <<cfg, mem, barrier, pc, rnd, hsize, offset, total, last, failing,
                   emitted, observed, holding, result, hf>>

PipeStep ==
    \/ \E p \in Peers : PeerStart(p)
    \/ ReaderFill
    \/ ReaderAbort
    \/ ReaderAbortTerminal
    \/ \E p \in Peers : wait(p)
    \/ ReaderLeave
    \/ \E c \in Consumers : ConsumerLeave(c)
    \/ \E c \in Consumers : ConsumerSnap(c)
    \/ \E c \in Consumers : ConsumerProcess(c)
    \/ \E c \in Consumers : ConsumerFault(c)
    \/ HfReader
    \/ \E c \in Consumers : HfCollect(c)
    \/ HfReturn
    \/ HfRaise
    \/ HasherDel
    \/ \E b \in Buffers : BufferDel(b)

----------------------------------------------------------------------------
(* filestore/directory.py : callers of add_file and remove_file on one      *)
(* destination path dst = file_path(K, S) of one DirectoryFileStore.        *)
(*                                                                          *)
(* Files are inodes: inode[i] is the length of the content of inode i and   *)
(* flock[i] the caller that holds the advisory lock on it (0: nobody).  A   *)
(* path names an inode or nothing (0).  FileLock(path) is the filelock      *)
(* package's lock on the file at path itself: every attempt to acquire it   *)
(* opens path with O_RDWR | O_CREAT | O_TRUNC and then tries a non-blocking *)
(* flock on the opened file; releasing unlocks and closes, the file stays.  *)

Callers == 1..MaxCallers

(* the inode of a file stored before the callers began *)
OldFile == MaxCallers + 1

NoBase == [dst |-> 0, stored |-> 0, len |-> 0, parent |-> FALSE, after |-> {}]

(* what caller c finds when its call begins: the destination, the counter,  *)
(* the parent directory, and the calls that have ended                      *)
Found(c) == [dst |-> dst, stored |-> store.stored,
             len |-> IF dst = 0 THEN 0 ELSE inode[dst],
             parent |-> store.parent,
             after |-> {d \in Callers : cpc[d] = "done"}]

(* DirectoryFileStore.__init__ leaves _stored = 0; the callers have not     *)
(* begun.  A caller's source is a regular file of S bytes, or is missing.   *)
StoreInit ==
    /\ \E S \in 0..MaxSize, parent \in BOOLEAN, mkdirs \in BOOLEAN, pre \in BOOLEAN,
          others \in {MaxFiles - 1, MaxFiles} :
          /\ pre => parent
          /\ others > 0 => parent
          /\ others + (IF pre THEN 1 ELSE 0) <= MaxFiles
          /\ store = [stored |-> 0, size |-> S, parent |-> parent, mkdirs |-> mkdirs,
                      pre |-> pre, max_files |-> MaxFiles, max_file_size |-> MaxSize,
                      others |-> others, init |-> "new", dir_depth |-> MaxDepth]
    /\ inode = [i \in 1..(MaxCallers + 1) |-> store.size]
    /\ flock = [i \in 1..(MaxCallers + 1) |-> 0]
    /\ dst = IF store.pre THEN OldFile ELSE 0
    /\ dstlock = 0
    /\ op \in [Callers -> {"add", "remove"}]
    /\ src \in {f \in [Callers -> 0..MaxCallers] :
                   \A c \in Callers : f[c] \in (IF op[c] = "add" THEN {0, c} ELSE {0})}
    /\ cpc = [c \in Callers |-> "idle"]
    /\ held = [c \in Callers |-> 0]
    /\ tmp = [c \in Callers |-> 0]
    /\ exc = [c \in Callers |-> "none"]
    /\ ret = [c \in Callers |-> "pending"]
    /\ committed = {}
    /\ base = [c \in Callers |-> NoBase]

(* One attempt of FileLock(path).acquire() by caller c, where path names    *)
(* inode at (0: no file): the state of the file system and of the caller    *)
(* after it.  With the parent directory missing the open fails              *)
(* (FileNotFoundError), unless the package creates the directories.         *)
TryLock(c, at) ==
    LET fails == ~store.parent /\ ~store.mkdirs
        i == IF at = 0 THEN Len(inode) + 1 ELSE at
        opened == IF at = 0 THEN Append(inode, 0) ELSE [inode EXCEPT ![at] = 0]
        locks == IF at = 0 THEN Append(flock, 0) ELSE flock
        free == locks[i] = 0
    IN  [fails |-> fails,
         at |-> IF fails THEN at ELSE i,
         inode |-> IF fails THEN inode ELSE opened,
         flock |-> IF fails THEN flock ELSE IF free THEN [locks EXCEPT ![i] = c] ELSE locks,
         got |-> ~fails /\ free]

(* add_file, lines 216-221: the source must be a regular file *)
add_file_begin(c) ==
    /\ op[c] = "add"
    /\ cpc[c] = "idle"
    /\ base' = [base EXCEPT ![c] = Found(c)]
    /\ IF src[c] = 0
       THEN /\ cpc' = [cpc EXCEPT ![c] = "done"]
            /\ ret' = [ret EXCEPT ![c] = "InvalidFileError"]
       ELSE /\ cpc' = [cpc EXCEPT ![c] = "acquire"]
            /\ ret' = ret
    /\ UNCHANGED <<store, inode, flock, dst, dstlock, src, op, held, tmp, exc, committed>>
    /\ UNCHANGED <<pipeVars, pathVars, bufVars>>

(* lock = FileLock(dst); with lock: one attempt to acquire *)
add_file_lock(c) ==
    LET t == TryLock(c, dst)
    IN  /\ op[c] = "add"
        /\ cpc[c] = "acquire"
        /\ inode' = t.inode
        /\ flock' = t.flock
        /\ dst' = t.at
        /\ store' = [store EXCEPT !.parent = @ \/ ~t.fails]
        /\ held' = [held EXCEPT ![c] = IF t.got THEN t.at ELSE 0]
        /\ cpc' = [cpc EXCEPT ![c] = IF t.fails THEN "done" ELSE IF t.got THEN "locked" ELSE "acquire"]
        /\ ret' = [ret EXCEPT ![c] = IF t.fails THEN "FileNotFoundError" ELSE @]
        /\ UNCHANGED <<dstlock, src, op, tmp, exc, committed, base>>
        /\ UNCHANGED <<pipeVars, pathVars, bufVars>>

(* if not dst.exists(): if not dst.parent.exists(): raise ... *)
add_file_check(c) ==
    /\ op[c] = "add"
    /\ cpc[c] = "locked"
    /\ IF dst # 0
       THEN /\ cpc' = [cpc EXCEPT ![c] = "dedup"]
            /\ exc' = exc
       ELSE IF ~store.parent
            THEN /\ cpc' = [cpc EXCEPT ![c] = "release"]
                 /\ exc' = [exc EXCEPT ![c] = "InvalidDirectoryError"]
            ELSE /\ cpc' = [cpc EXCEPT ![c] = "rename"]
                 /\ exc' = exc
    /\ UNCHANGED <<store, inode, flock, dst, dstlock, src, op, held, tmp, ret, committed, base>>
    /\ UNCHANGED <<pipeVars, pathVars, bufVars>>

(* src.rename(dst) *)
add_file_rename(c) ==
    /\ op[c] = "add"
    /\ cpc[c] = "rename"
    /\ dst' = src[c]
    /\ src' = [src EXCEPT ![c] = 0]
    /\ committed' = committed \cup {c}
    /\ cpc' = [cpc EXCEPT ![c] = "chmod"]
    /\ UNCHANGED <<store, inode, flock, dstlock, op, held, tmp, exc, ret, base>>
    /\ UNCHANGED <<pipeVars, pathVars, bufVars>>

(* dst.chmod(mode=self.file_mode): fails when dst is gone again *)
add_file_chmod(c) ==
    /\ op[c] = "add"
    /\ cpc[c] = "chmod"
    /\ IF dst = 0
       THEN /\ cpc' = [cpc EXCEPT ![c] = "release"]
            /\ exc' = [exc EXCEPT ![c] = "FileNotFoundError"]
       ELSE /\ cpc' = [cpc EXCEPT ![c] = "count"]
            /\ exc' = exc
    /\ UNCHANGED <<store, inode, flock, dst, dstlock, src, op, held, tmp, ret, committed, base>>
    /\ UNCHANGED <<pipeVars, pathVars, bufVars>>

(* src.unlink() *)
add_file_dedup(c) ==
    /\ op[c] = "add"
    /\ cpc[c] = "dedup"
    /\ src' = [src EXCEPT ![c] = 0]
    /\ cpc' = [cpc EXCEPT ![c] = "release"]
    /\ UNCHANGED <<store, inode, flock, dst, dstlock, op, held, tmp, exc, ret, committed, base>>
    /\ UNCHANGED <<pipeVars, pathVars, bufVars>>

(* a counter that only ever goes up *)
Delta_up(c) == 1

(* self._stored += 1 and self._stored -= 1: a load, then a store *)
Delta(c) == IF op[c] = "add" THEN 1 ELSE 0 - 1

stored_load(c) ==
    /\ cpc[c] = "count"
    /\ tmp' = [tmp EXCEPT ![c] = store.stored]
    /\ cpc' = [cpc EXCEPT ![c] = "count2"]
    /\ UNCHANGED <<store, inode, flock, dst, dstlock, src, op, held, exc, ret, committed, base>>
    /\ UNCHANGED <<pipeVars, pathVars, bufVars>>

stored_save(c) ==
    /\ cpc[c] = "count2"
    /\ store' = [store EXCEPT !.stored = tmp[c] + Delta(c)]
    /\ cpc' = [cpc EXCEPT ![c] = "release"]
    /\ UNCHANGED <<inode, flock, dst, dstlock, src, op, held, tmp, exc, ret, committed, base>>
    /\ UNCHANGED <<pipeVars, pathVars, bufVars>>

(* the end of the with block: the lock is released; an exception goes on *)
lock_release(c) ==
    /\ cpc[c] = "release"
    /\ flock' = [flock EXCEPT ![held[c]] = 0]
    /\ held' = [held EXCEPT ![c] = 0]
    /\ IF exc[c] # "none"
       THEN /\ cpc' = [cpc EXCEPT ![c] = "done"]
            /\ ret' = [ret EXCEPT ![c] = exc[c]]
       ELSE /\ cpc' = [cpc EXCEPT ![c] = "return"]
            /\ ret' = ret
    /\ UNCHANGED <<store, inode, dst, dstlock, src, op, tmp, exc, committed, base>>
    /\ UNCHANGED <<pipeVars, pathVars, bufVars>>

(* return dst.exists()  /  return not fpath.exists() *)
call_return(c) ==
    /\ cpc[c] = "return"
    /\ cpc' = [cpc EXCEPT ![c] = "done"]
    /\ ret' = [ret EXCEPT ![c] = IF (dst # 0) = (op[c] = "add") THEN "True" ELSE "False"]
    /\ UNCHANGED <<store, inode, flock, dst, dstlock, src, op, held, tmp, exc, committed, base>>
    /\ UNCHANGED <<pipeVars, pathVars, bufVars>>

(* remove_file, lines 244-246: lock = FileLock(f"{fpath}.lock"); with lock *)
remove_file_lock(c) ==
    LET t == TryLock(c, dstlock)
    IN  /\ op[c] = "remove"
        /\ cpc[c] \in {"idle", "acquire"}
        /\ base' = IF cpc[c] = "idle" THEN [base EXCEPT ![c] = Found(c)] ELSE base
        /\ inode' = t.inode
        /\ flock' = t.flock
        /\ dstlock' = t.at
        /\ store' = [store EXCEPT !.parent = @ \/ ~t.fails]
        /\ held' = [held EXCEPT ![c] = IF t.got THEN t.at ELSE 0]
        /\ cpc' = [cpc EXCEPT ![c] = IF t.fails THEN "done" ELSE IF t.got THEN "locked" ELSE "acquire"]
        /\ ret' = [ret EXCEPT ![c] = IF t.fails THEN "FileNotFoundError" ELSE @]
        /\ UNCHANGED <<dst, src, op, tmp, exc, committed>>
        /\ UNCHANGED <<pipeVars, pathVars, bufVars>>

(* if fpath.exists() and fpath.is_file(): fpath.unlink() *)
remove_file_check(c) ==
    /\ op[c] = "remove"
    /\ cpc[c] = "locked"
    /\ cpc' = [cpc EXCEPT ![c] = IF dst # 0 THEN "unlink" ELSE "release"]
    /\ UNCHANGED <<store, inode, flock, dst, dstlock, src, op, held, tmp, exc, ret, committed, base>>
    /\ UNCHANGED <<pipeVars, pathVars, bufVars>>

remove_file_unlink(c) ==
    /\ op[c] = "remove"
    /\ cpc[c] = "unlink"
    /\ IF dst = 0
       THEN /\ cpc' = [cpc EXCEPT ![c] = "release"]
            /\ exc' = [exc EXCEPT ![c] = "FileNotFoundError"]
            /\ dst' = dst
       ELSE /\ cpc' = [cpc EXCEPT ![c] = "count"]
            /\ exc' = exc
            /\ dst' = 0
    /\ committed' = IF dst = 0 THEN committed ELSE committed \cup {c}
    /\ UNCHANGED <<store, inode, flock, dstlock, src, op, held, tmp, ret, base>>
    /\ UNCHANGED <<pipeVars, pathVars, bufVars>>

(* files_stored(): the counter *)
files_stored == store.stored

hexchars == <<"0", "1", "2", "3", "4", "5", "6", "7", "8", "9", "a", "b", "c", "d", "e", "f">>

NoEnum == [err |-> "pending", paths |-> <<>>]

(* enum_sub_dirs(base_dir, depth, max_depth) of a store with the given      *)
(* dir_depth, iterated to its end: the paths yielded, each as the levels    *)
(* below the root, and the error that ended the iteration.  A max_depth of  *)
(* 0 stands for None as well: "max_depth or self.dir_depth" treats both     *)
(* alike.  enum_from is the loop over hexchars from its i-th character on;  *)
(* an error in a recursive call ends the iteration with what was yielded.   *)
RECURSIVE enum_sub_dirs(_, _, _, _)
RECURSIVE enum_from(_, _, _, _, _)
enum_sub_dirs(base_dir, depth, max_depth, dir_depth) ==
    IF depth < 1 THEN [err |-> "ValueError", paths |-> <<>>]
    ELSE LET md == IF max_depth # 0 THEN max_depth ELSE dir_depth
         IN  IF md < depth THEN [err |-> "ValueError", paths |-> <<>>]
             ELSE IF depth > md THEN [err |-> "none", paths |-> <<base_dir>>]
             ELSE enum_from(1, base_dir, depth, md, dir_depth)

enum_from(i, pd, depth, md, dir_depth) ==
    IF i > Len(hexchars) THEN [err |-> "none", paths |-> <<>>]
    ELSE LET sub == enum_sub_dirs(Append(pd, hexchars[i]), depth + 1, md, dir_depth)
         IN  IF sub.err # "none" THEN sub
             ELSE LET rest == enum_from(i + 1, pd, depth, md, dir_depth)
                  IN  [err |-> rest.err, paths |-> sub.paths \o rest.paths]

(* the files in the leaf directories whose names do not match *.lock *)
FilesInLeaves == store.others + (IF dst # 0 THEN 1 ELSE 0)

(* count_stored(): the sum, over the directories enum_sub_dirs() yields, of *)
(* the files whose names do not match *.lock                                *)
count_stored ==
    LET dirs == enum_sub_dirs(<<>>, 1, 0, store.dir_depth)
    IN  IF dirs.err # "none" THEN [err |-> dirs.err, count |-> 0]
        ELSE [err |-> "none", count |-> FilesInLeaves]

(* can_store(file_size), with enough free space on the disk or not; an int  *)
(* file_size never reaches the raise of line 292                            *)
can_store(enough_free, file_size) ==
    IF ~enough_free THEN FALSE
    ELSE IF files_stored >= store.max_files THEN FALSE
    ELSE store.max_file_size >= file_size

(* init_store(), called when no add_file or remove_file call is under way   *)
(* any more: self.create_dirs(self.path) passes an argument create_dirs     *)
(* does not take, so the call raises TypeError before any directory is made *)
(* and before _stored is assigned                                           *)
init_store ==
    /\ \A c \in Callers : cpc[c] = "done"
    /\ store.init = "new"
    /\ store' = [store EXCEPT !.init = "TypeError"]
    /\ UNCHANGED <<inode, flock, dst, dstlock, src, op, cpc, held, tmp, exc, ret,
                   committed, base>>
    /\ UNCHANGED <<pipeVars, pathVars, bufVars>>

StoreStep ==
    \/ \E c \in Callers : add_file_begin(c)
    \/ \E c \in Callers : add_file_lock(c)
    \/ \E c \in Callers : add_file_check(c)
    \/ \E c \in Callers : add_file_rename(c)
    \/ \E c \in Callers : add_file_chmod(c)
    \/ \E c \in Callers : add_file_dedup(c)
    \/ \E c \in Callers : stored_load(c)
    \/ \E c \in Callers : stored_save(c)
    \/ \E c \in Callers : lock_release(c)
    \/ \E c \in Callers : call_return(c)
    \/ \E c \in Callers : remove_file_lock(c)
    \/ \E c \in Callers : remove_file_check(c)
    \/ \E c \in Callers : remove_file_unlink(c)
    \/ init_store

----------------------------------------------------------------------------
(* filestore/directory.py : size_to_basex and file_path.  A string is a     *)
(* sequence of one-character strings; a path is the sequence of directory   *)
(* names below the store's root and the file name.                          *)

(* the default base_text *)
base_text == <<"0", "1", "2", "3", "4", "5", "6", "7", "8", "9", "a", "b", "c", "d", "e", "f",
               "g", "h", "i", "j", "k", "l", "m", "n", "o", "p", "q", "r", "s", "t", "u", "v">>

(* size_to_basex with the digits in the reverse order *)
RECURSIVE size_to_basex_lsd(_)
size_to_basex_lsd(size) ==
    LET b == Len(base_text)
    IN  IF size < b THEN <<base_text[size + 1]>>
        ELSE <<base_text[(size % b) + 1]>> \o size_to_basex_lsd(size \div b)

(* size_to_basex(size), for size >= 0 *)
RECURSIVE size_to_basex(_)
size_to_basex(size) ==
    LET b == Len(base_text)
    IN  IF size < b THEN <<base_text[size + 1]>>
        ELSE size_to_basex(size \div b) \o <<base_text[(size % b) + 1]>>

LowerHex == {"0", "1", "2", "3", "4", "5", "6", "7", "8", "9", "a", "b", "c", "d", "e", "f"}
UpperHex == {"A", "B", "C", "D", "E", "F"}

(* str.lower() on one character *)
LowerChar(ch) ==
    CASE ch = "A" -> "a" [] ch = "B" -> "b" [] ch = "C" -> "c" [] ch = "D" -> "d"
      [] ch = "E" -> "e" [] ch = "F" -> "f" [] ch = "X" -> "x" [] OTHER -> ch

(* path_key.lower() *)
lower(k) == [i \in 1..Len(k) |-> LowerChar(k[i])]

IsHexDigit(ch) == ch \in LowerHex \cup UpperHex

(* int(path_key, 16) does not raise: an optional sign, an optional 0x or 0X  *)
(* prefix (which one underscore may follow), then hex digits with single    *)
(* underscores between digits.  (Surrounding white space, which int() also  *)
(* strips, is not among the characters of the model.)                       *)
ParsesAsInt16(k) ==
    LET unsigned == IF Len(k) > 0 /\ k[1] \in {"-", "+"} THEN Tail(k) ELSE k
        prefixed == Len(unsigned) >= 2 /\ unsigned[1] = "0" /\ unsigned[2] \in {"x", "X"}
        rest == IF prefixed THEN SubSeq(unsigned, 3, Len(unsigned)) ELSE unsigned
        body == IF prefixed /\ Len(rest) > 0 /\ rest[1] = "_" THEN Tail(rest) ELSE rest
    IN  /\ Len(body) > 0
        /\ \A i \in 1..Len(body) :
              \/ IsHexDigit(body[i])
              \/ /\ body[i] = "_"
                 /\ i > 1 /\ i < Len(body)
                 /\ IsHexDigit(body[i - 1]) /\ IsHexDigit(body[i + 1])

NoPath == [err |-> "pending", dirs |-> <<>>, name |-> <<>>]
Raise(e) == [err |-> e, dirs |-> <<>>, name |-> <<>>]

(* file_path without the directory levels *)
file_path_flat(path_key, file_size, dir_depth) ==
    IF file_size < 0 \/ ~ParsesAsInt16(path_key) THEN Raise("ValueError")
    ELSE IF Len(path_key) <= dir_depth THEN Raise("InvalidPath")
    ELSE [err |-> "none", dirs |-> <<>>,
          name |-> lower(path_key) \o <<".">> \o size_to_basex(file_size)]

(* file_path(path_key, file_size) of a store with the given dir_depth *)
file_path(path_key, file_size, dir_depth) ==
    IF file_size < 0 THEN Raise("ValueError")
    ELSE IF ~ParsesAsInt16(path_key) THEN Raise("ValueError")
    ELSE LET key == lower(path_key)
         IN  IF Len(key) <= dir_depth THEN Raise("InvalidPath")
             ELSE LET size_string == size_to_basex(file_size)
                  IN  IF Len(size_string) < 1 THEN Raise("InvalidFileSize")
                      ELSE [err |-> "none",
                            dirs |-> [a \in 1..dir_depth |-> key[a]],
                            name |-> SubSeq(key, dir_depth + 1, Len(key))
                                         \o <<".">> \o size_string]

(* characters of the keys a caller passes *)
KeyChars == {"0", "b", "B", "g", "x", "_", "-"}

RECURSIVE KeysOfLen(_)
KeysOfLen(n) ==
    IF n = 0 THEN {<<>>} ELSE {Append(k, ch) : k \in KeysOfLen(n - 1), ch \in KeyChars}

Keys == UNION {KeysOfLen(n) : n \in 0..MaxKeyLen}

(* the sizes a caller passes to file_path: a negative one, small ones, and  *)
(* the 123 of the repository's test                                         *)
PathSizes == ((0 - 1)..MaxPathSize) \cup {123}

PathCalls ==
    {[fn |-> "file_path", key |-> k, depth |-> d, size |-> sz] :
        k \in Keys, d \in 0..MaxDepth, sz \in PathSizes}
    \cup {[fn |-> "size_to_basex", key |-> <<>>, depth |-> 0, size |-> sz] :
             sz \in 0..MaxEncode}
    \cup {[fn |-> "enum_sub_dirs", key |-> <<>>, depth |-> d, size |-> 0] :
             d \in 0..MaxDepth}

PathInit ==
    /\ fpcall \in PathCalls
    /\ fpout = NoPath
    /\ fpagain = NoPath
    /\ enumout = NoEnum

file_path_call ==
    /\ fpcall.fn = "file_path"
    /\ fpout.err = "pending"
    /\ fpout' = file_path(fpcall.key, fpcall.size, fpcall.depth)
    /\ UNCHANGED <<fpcall, fpagain, enumout>>
    /\ UNCHANGED <<pipeVars, storeVars, bufVars>>

file_path_again ==
    /\ fpcall.fn = "file_path"
    /\ fpout.err # "pending"
    /\ fpagain.err = "pending"
    /\ fpagain' = file_path(fpcall.key, fpcall.size, fpcall.depth)
    /\ UNCHANGED <<fpcall, fpout, enumout>>
    /\ UNCHANGED <<pipeVars, storeVars, bufVars>>

size_to_basex_call ==
    /\ fpcall.fn = "size_to_basex"
    /\ fpout.err = "pending"
    /\ fpout' = [err |-> "none", dirs |-> <<>>, name |-> size_to_basex(fpcall.size)]
    /\ UNCHANGED <<fpcall, fpagain, enumout>>
    /\ UNCHANGED <<pipeVars, storeVars, bufVars>>

(* list(store.enum_sub_dirs()) on a store with fpcall.depth levels *)
enum_sub_dirs_call ==
    /\ fpcall.fn = "enum_sub_dirs"
    /\ enumout.err = "pending"
    /\ enumout' = enum_sub_dirs(<<>>, 1, 0, fpcall.depth)
    /\ UNCHANGED <<fpcall, fpout, fpagain>>
    /\ UNCHANGED <<pipeVars, storeVars, bufVars>>

PathStep ==
    \/ file_path_call
    \/ file_path_again
    \/ size_to_basex_call
    \/ enum_sub_dirs_call

----------------------------------------------------------------------------
(* buffers/shmem.py : one buffer of capacity BufCap, the creator's handle,  *)
(* and an attacher's handle held by a SHMBufferSync.  Any public operation  *)
(* may be called on a handle that has been constructed and not dropped.     *)

Handles == {1, 2}

(* arguments of save_size: an explicit size, or None *)
SizeArgs == (0 - 1)..(BufCap + 1)

(* the data of save_bytes: n bytes 1, 2, ..., n *)
DataOfLen(n) == [i \in 1..n |-> i]

NoCall == [op |-> "none", h |-> 0, err |-> "none", ret |-> 0, view |-> <<>>,
           data |-> <<>>, follows |-> FALSE]

Call(name, h, err) == [NoCall EXCEPT !.op = name, !.h = h, !.err = err]

(* load_bytes(): load_size(), then snapshot() *)
load_bytes(m) == snapshot(m, load_size(m))

BufInit ==
    /\ bmem = NewRegion(BufCap)
    /\ bh = [h \in Handles |-> NewHandle(h = 1)]
    /\ bsize = [h \in Handles |-> 0]
    /\ blife = [h \in Handles |-> IF h = 1 THEN "live" ELSE "none"]
    /\ bos = NewShm
    /\ bsync = [buffer |-> 0, dropped |-> FALSE]
    /\ bres = NoCall

(* save_size(new_size): _size is assigned before pack_into, which raises    *)
(* on a negative value (struct.error) and on a handle without buf           *)
buf_save_size(h, given, n) ==
    LET sz == IF given THEN n ELSE bsize[h]
    IN  /\ blife[h] = "live"
        /\ bsize' = [bsize EXCEPT ![h] = sz]
        /\ IF bh[h].nobuf
           THEN /\ bmem' = bmem
                /\ bres' = Call("save_size", h, "TypeError")
           ELSE IF sz < 0
           THEN /\ bmem' = bmem
                /\ bres' = Call("save_size", h, "struct.error")
           ELSE /\ bmem' = save_size(bmem, sz)
                /\ bres' = Call("save_size", h, "none")
        /\ UNCHANGED <<bh, blife, bos, bsync>>
        /\ UNCHANGED <<pipeVars, storeVars, pathVars>>

buf_load_size(h) ==
    /\ blife[h] = "live"
    /\ IF bh[h].nobuf
       THEN /\ bsize' = bsize
            /\ bres' = Call("load_size", h, "TypeError")
       ELSE /\ bsize' = [bsize EXCEPT ![h] = load_size(bmem)]
            /\ bres' = Call("load_size", h, "none")
    /\ UNCHANGED <<bmem, bh, blife, bos, bsync>>
    /\ UNCHANGED <<pipeVars, storeVars, pathVars>>

buf_save_bytes(h, data) ==
    LET r == save_bytes(bmem, bsize[h], data)
    IN  /\ blife[h] = "live"
        /\ IF bh[h].nobuf
           THEN /\ UNCHANGED <<bmem, bsize>>
                /\ bres' = [Call("save_bytes", h, "TypeError") EXCEPT !.data = data]
           ELSE /\ bmem' = r.mem
                /\ bsize' = [bsize EXCEPT ![h] = r.size]
                /\ bres' = [Call("save_bytes", h, IF r.ok THEN "none" ELSE "ValueError")
                               EXCEPT !.ret = r.ret, !.data = data]
        /\ UNCHANGED <<bh, blife, bos, bsync>>
        /\ UNCHANGED <<pipeVars, storeVars, pathVars>>

(* the record of a call that returned a snapshot; it follows a write when   *)
(* the call before it was a save_bytes on the same handle                   *)
Viewed(name, h, view) ==
    [Call(name, h, "none") EXCEPT
        !.view = view,
        !.data = IF bres.op = "save_bytes" /\ bres.h = h THEN bres.data ELSE <<>>,
        !.follows = (bres.op = "save_bytes" /\ bres.h = h)]

(* snapshot(); the caller keeps the returned view or lets it go at once *)
buf_snapshot(h, kept) ==
    /\ blife[h] = "live"
    /\ kept => bh[h].views < MaxViews
    /\ IF bh[h].nobuf
       THEN /\ bh' = bh
            /\ bres' = Call("snapshot", h, "TypeError")
       ELSE /\ bh' = [bh EXCEPT ![h].views = IF kept THEN @ + 1 ELSE @]
            /\ bres' = Viewed("snapshot", h, snapshot(bmem, bsize[h]))
    /\ UNCHANGED <<bmem, bsize, blife, bos, bsync>>
    /\ UNCHANGED <<pipeVars, storeVars, pathVars>>

buf_load_bytes(h, kept) ==
    /\ blife[h] = "live"
    /\ kept => bh[h].views < MaxViews
    /\ IF bh[h].nobuf
       THEN /\ UNCHANGED <<bh, bsize>>
            /\ bres' = Call("load_bytes", h, "TypeError")
       ELSE /\ bsize' = [bsize EXCEPT ![h] = load_size(bmem)]
            /\ bh' = [bh EXCEPT ![h].views = IF kept THEN @ + 1 ELSE @]
            /\ bres' = Viewed("load_bytes", h, load_bytes(bmem))
    /\ UNCHANGED <<bmem, blife, bos, bsync>>
    /\ UNCHANGED <<pipeVars, storeVars, pathVars>>

(* the caller lets a snapshot go *)
view_release(h) ==
    /\ blife[h] # "none"
    /\ bh[h].views > 0
    /\ bh' = [bh EXCEPT ![h].views = @ - 1]
    /\ UNCHANGED <<bmem, bsize, blife, bos, bsync, bres>>
    /\ UNCHANGED <<pipeVars, storeVars, pathVars>>

buf_close(h) ==
    /\ blife[h] = "live"
    /\ bh' = [bh EXCEPT ![h] = close(bh[h], bos).h]
    /\ bos' = close(bh[h], bos).os
    /\ bres' = Call("close", h, IF CloseRaises(bh[h]) THEN "BufferError" ELSE "none")
    /\ UNCHANGED <<bmem, bsize, blife, bsync>>
    /\ UNCHANGED <<pipeVars, storeVars, pathVars>>

buf_unlink(h) ==
    /\ blife[h] = "live"
    /\ bh' = [bh EXCEPT ![h] = unlink(bh[h], bos).h]
    /\ bos' = unlink(bh[h], bos).os
    /\ bres' = Call("unlink", h, "none")
    /\ UNCHANGED <<bmem, bsize, blife, bsync>>
    /\ UNCHANGED <<pipeVars, storeVars, pathVars>>

(* __del__ of a handle nobody refers to any more: close(), unlink(); the    *)
(* SHMBufferSync refers to the attacher's handle until it is dropped        *)
buf_del(h) ==
    /\ blife[h] = "live"
    /\ (h = bsync.buffer) => bsync.dropped
    /\ blife' = [blife EXCEPT ![h] = "dropped"]
    /\ bh' = [bh EXCEPT ![h] = close_unlink(bh[h], bos).h]
    /\ bos' = close_unlink(bh[h], bos).os
    /\ bres' = Call("__del__", h, IF CloseRaises(bh[h]) THEN "BufferError" ELSE "none")
    /\ UNCHANGED <<bmem, bsize, bsync>>
    /\ UNCHANGED <<pipeVars, storeVars, pathVars>>

(* SHMBufferSync.load_buffer(): attach by name once; attaching to a region  *)
(* that has been unlinked raises                                           *)
sync_load_buffer ==
    /\ ~bsync.dropped
    /\ IF bsync.buffer # 0
       THEN UNCHANGED <<bh, bsize, blife, bsync, bres>>
       ELSE IF ~bos.registered
       THEN /\ bres' = Call("load_buffer", 2, "FileNotFoundError")
            /\ UNCHANGED <<bh, bsize, blife, bsync>>
       ELSE /\ bh' = [bh EXCEPT ![2] = NewHandle(FALSE)]
            /\ bsize' = [bsize EXCEPT ![2] = 0]
            /\ blife' = [blife EXCEPT ![2] = "live"]
            /\ bsync' = [bsync EXCEPT !.buffer = 2]
            /\ bres' = Call("load_buffer", 2, "none")
    /\ UNCHANGED <<bmem, bos>>
    /\ UNCHANGED <<pipeVars, storeVars, pathVars>>

(* SHMBufferSync.close(): close the buffer if there is one *)
SyncClose ==
    IF bsync.buffer = 0
    THEN /\ UNCHANGED <<bh, bos>>
         /\ bres' = Call("sync.close", 0, "none")
    ELSE /\ bh' = [bh EXCEPT ![2] = close(bh[2], bos).h]
         /\ bos' = close(bh[2], bos).os
         /\ bres' = Call("sync.close", 2, IF CloseRaises(bh[2]) THEN "BufferError" ELSE "none")

sync_close ==
    /\ ~bsync.dropped
    /\ SyncClose
    /\ UNCHANGED <<bmem, bsize, blife, bsync>>
    /\ UNCHANGED <<pipeVars, storeVars, pathVars>>

(* SHMBufferSync.__del__: close() *)
sync_del ==
    /\ ~bsync.dropped
    /\ SyncClose
    /\ bsync' = [bsync EXCEPT !.dropped = TRUE]
    /\ UNCHANGED <<bmem, bsize, blife>>
    /\ UNCHANGED <<pipeVars, storeVars, pathVars>>

BufStep ==
    \/ \E h \in Handles, given \in BOOLEAN, n \in SizeArgs : buf_save_size(h, given, n)
    \/ \E h \in Handles : buf_load_size(h)
    \/ \E h \in Handles, n \in 0..(BufCap + 1) : buf_save_bytes(h, DataOfLen(n))
    \/ \E h \in Handles, kept \in BOOLEAN : buf_snapshot(h, kept)
    \/ \E h \in Handles, kept \in BOOLEAN : buf_load_bytes(h, kept)
    \/ \E h \in Handles : view_release(h)
    \/ \E h \in Handles : buf_close(h)
    \/ \E h \in Handles : buf_unlink(h)
    \/ \E h \in Handles : buf_del(h)
    \/ sync_load_buffer
    \/ sync_close
    \/ sync_del

----------------------------------------------------------------------------
(* The specifications.  Each leaves the other subsystems at rest.           *)

PipeIdle ==
    /\ cfg = [buffer_count |-> 2, file_size |-> 0, file_magic |-> FALSE, file_mime |-> FALSE,
              args |-> <<>>, workers |-> 1, faulty |-> 0, fault |-> "ok"]
    /\ mem = <<>>
    /\ creator = <<>>
    /\ shm = <<>>
    /\ barrier = <<>>
    /\ pc = <<>>
    /\ rnd = <<>>
    /\ hsize = <<>>
    /\ offset = 0
    /\ total = <<>>
    /\ last = 0
    /\ failing = FALSE
    /\ emitted = <<>>
    /\ observed = <<>>
    /\ holding = <<>>
    /\ result = <<>>
    /\ hf = [pc |-> "idle", report |-> EmptyDict, collected |-> {}, err |-> "none"]
    /\ life = [state |-> "alive", dropped |-> {}]

StoreIdle ==
    /\ store = [stored |-> 0, size |-> 0, parent |-> TRUE, mkdirs |-> FALSE, pre |-> FALSE,
                max_files |-> MaxFiles, max_file_size |-> MaxSize, others |-> 0,
                init |-> "new"]
    /\ inode = <<>>
    /\ flock = <<>>
    /\ dst = 0
    /\ dstlock = 0
    /\ src = <<>>
    /\ op = <<>>
    /\ cpc = <<>>
    /\ held = <<>>
    /\ tmp = <<>>
    /\ exc = <<>>
    /\ ret = <<>>
    /\ committed = {}
    /\ base = <<>>

PathIdle ==
    /\ fpcall = [fn |-> "none", key |-> <<>>, depth |-> 0, size |-> 0]
    /\ fpout = NoPath
    /\ fpagain = NoPath
    /\ enumout = NoEnum

BufIdle ==
    /\ bmem = <<>>
    /\ bh = <<>>
    /\ bsize = <<>>
    /\ blife = <<>>
    /\ bos = NewShm
    /\ bsync = [buffer |-> 0, dropped |-> FALSE]
    /\ bres = NoCall

PipeNext == PipeStep

StoreNext == StoreStep

PipeStart == PipeInit /\ StoreIdle /\ PathIdle /\ BufIdle

StoreStart == StoreInit /\ PipeIdle /\ PathIdle /\ BufIdle

PipeSpec == PipeStart /\ [][PipeNext]_vars

StoreSpec == StoreStart /\ [][StoreNext]_vars

PathNext == PathStep

PathStart == PathInit /\ PipeIdle /\ StoreIdle /\ BufIdle

PathSpec == PathStart /\ [][PathNext]_vars

BufNext == BufStep

BufStart == BufInit /\ PipeIdle /\ StoreIdle /\ PathIdle

BufSpec == BufStart /\ [][BufNext]_vars

----------------------------------------------------------------------------
(* Properties of the pipeline (PipeSpec) *)

(* no peer and no step of hash_file or of the drop can go on *)
PipeStopped == ~ENABLED PipeNext

(* every consumer follows the protocol and the executor has a process for   *)
(* every peer                                                               *)
HonestRun == cfg.faulty = 0 /\ cfg.workers >= max_threads

RECURSIVE ChunkLengths(_, _)
(* the lengths of the non-terminal chunks of a file of n bytes read in      *)
(* pieces of at most cap bytes, followed by the terminal chunk's 0          *)
ChunkLengths(n, cap) ==
    IF n = 0 THEN <<0>> ELSE <<Min(n, cap)>> \o ChunkLengths(n - Min(n, cap), cap)

IsPrefix(s, t) == Len(s) <= Len(t) /\ SubSeq(t, 1, Len(s)) = s

(* C1: in a run with honest consumers, every consumer observes the chunks   *)
(* of the file in the order of the file, each once, and when the run has    *)
(* come to rest it has observed all of them and then one terminal chunk,    *)
(* which is the last one it observes.                                       *)
C1_EveryChunkOnceInOrder ==
    HonestRun =>
        /\ \A c \in Consumers : IsPrefix(observed[c], ChunkLengths(cfg.file_size, BufferSize))
        /\ PipeStopped =>
              \A c \in Consumers : observed[c] = ChunkLengths(cfg.file_size, BufferSize)

(* C3: with honest consumers and a pool of two buffers the run ends only    *)
(* with hash_file returned, every peer having left with a report and        *)
(* having tripped at least one barrier.                                     *)
C3_RunTerminates ==
    (cfg.faulty = 0 /\ PoolSize(cfg.buffer_count) = 2 /\ PipeStopped) =>
        /\ hf.pc = "returned"
        /\ \A p \in Peers : result[p].kind = "report"
        /\ Len(emitted) >= 1
        /\ \A c \in Consumers : Len(observed[c]) >= 1

(* C4: when a peer has faulted without reaching the barrier, the run does   *)
(* not stay blocked: it comes to rest only with hash_file failed, every     *)
(* peer gone and the pool unlinked.                                         *)
C4_FaultDoesNotHang ==
    ((\E p \in Peers : result[p].kind = "exc") /\ PipeStopped) =>
        /\ hf.pc = "raised"
        /\ \A p \in Peers : pc[p] = "done"
        /\ \A b \in Buffers : ~shm[b].registered

(* C5: hash_file returns only if the reader and every consumer returned a   *)
(* report and every consumer's size equals the reader's; with a consumer    *)
(* that reported another byte count or nothing, hash_file that has ended    *)
(* has raised.                                                              *)
SizesAgree ==
    /\ result[0].kind = "report"
    /\ \A c \in Consumers :
          /\ result[c].kind = "report"
          /\ result[c].d["size"] = result[0].d["size"]

----------------------------------------------------------------------------
(* Properties of the directory store (StoreSpec) *)

AllDone == \A c \in Callers : cpc[c] = "done"

(* caller c ran alone: no other caller has begun *)
Alone(c) == \A d \in Callers \ {c} : cpc[d] = "idle"

(* the file at the destination holds the bytes of a source *)
HoldsContent == dst # 0 /\ inode[dst] = store.size

(* C7: when every caller adds its own source file under the same key to a   *)
(* destination that was absent and all calls have returned, at most one     *)
(* caller has renamed its source onto the destination, every other source   *)
(* is gone, and the destination holds one copy of the content.              *)
C7_AtMostOneCommit ==
    (/\ ~store.pre
     /\ \A c \in Callers : op[c] = "add" /\ base[c].parent /\ ret[c] = "True") =>
        /\ Cardinality(committed) <= 1
        /\ \A c \in Callers : src[c] = 0
        /\ HoldsContent

(* C8: add_file of a regular source file, alone, on an absent destination   *)
(* whose parent directory exists renames the source onto the destination,   *)
(* adds one to the counter, and the destination then holds the source's     *)
(* content.                                                                 *)
C8_AddToAbsent ==
    \A c \in Callers :
        (/\ op[c] = "add" /\ cpc[c] = "done" /\ Alone(c)
         /\ ret[c] # "InvalidFileError"
         /\ base[c].dst = 0 /\ base[c].parent) =>
            /\ ret[c] = "True"
            /\ committed = {c}
            /\ dst = c
            /\ store.stored = base[c].stored + 1
            /\ HoldsContent

(* C9: add_file, alone, on a destination that is present deletes the        *)
(* source, returns True and leaves the stored file and the counter as they  *)
(* were; and two add_file calls of the same key one after the other, on a   *)
(* destination absent at first, leave the counter one above its value       *)
(* before the first.                                                        *)
C9_DedupOnPresent ==
    /\ \A c \in Callers :
          (/\ op[c] = "add" /\ cpc[c] = "done" /\ Alone(c)
           /\ ret[c] # "InvalidFileError"
           /\ base[c].dst # 0) =>
              /\ ret[c] = "True"
              /\ src[c] = 0
              /\ dst = base[c].dst
              /\ inode[dst] = base[c].len
              /\ store.stored = base[c].stored
    /\ \A c, d \in Callers :
          (/\ op[c] = "add" /\ op[d] = "add" /\ cpc[c] = "done" /\ cpc[d] = "done"
           /\ ret[c] = "True" /\ ret[d] = "True"
           /\ base[c].after = {} /\ base[d].after = {c}
           /\ base[c].dst = 0 /\ base[c].parent) =>
              /\ store.stored = base[c].stored + 1
              /\ src[d] = 0

(* C10: the critical sections of two calls on the same destination never    *)
(* overlap: no two callers hold their locks at the same time.               *)
C10_CriticalSectionsExclusive ==
    \A c, d \in Callers : (c # d) => ~(held[c] # 0 /\ held[d] # 0)

(* caller c ran in turn: every other caller ended before c began or has not *)
(* begun                                                                    *)
InTurn(c) == \A d \in Callers \ {c} : cpc[d] = "idle" \/ d \in base[c].after

(* C11: remove_file, in turn, in a store whose leaf directory exists,       *)
(* returns True and leaves the destination absent; the counter is one less  *)
(* than before when the destination was present and unchanged when it was   *)
(* absent.  A second remove_file after the first one returns True again.    *)
C11_RemoveIdempotent ==
    \A c \in Callers :
        (/\ op[c] = "remove" /\ cpc[c] = "done" /\ InTurn(c)
         /\ base[c].parent) =>
            /\ ret[c] = "True"
            /\ dst = 0
            /\ store.stored = base[c].stored - (IF base[c].dst # 0 THEN 1 ELSE 0)

(* C11 witness: a remove_file that found the file present and returned True,*)
(* followed by a second remove_file of the same key that returned True      *)
C11_Witness ==
    \E c, d \in Callers :
        /\ c # d /\ op[c] = "remove" /\ op[d] = "remove"
        /\ cpc[c] = "done" /\ cpc[d] = "done"
        /\ base[c].after = {} /\ base[d].after = {c}
        /\ base[c].dst # 0 /\ base[d].dst = 0
        /\ ret[c] = "True" /\ ret[d] = "True"
        /\ store.stored = base[c].stored - 1

(* C12: an add_file call on a destination whose parent directory is missing *)
(* fails with InvalidDirectoryError; and when an add_file call, in turn,    *)
(* fails, the counter is what it was and a regular source file is still in  *)
(* place.                                                                   *)
C12_FailedAddLeavesState ==
    \A c \in Callers :
        (op[c] = "add" /\ cpc[c] = "done" /\ InTurn(c)) =>
            /\ (~base[c].parent /\ ret[c] # "InvalidFileError") =>
                   ret[c] = "InvalidDirectoryError"
            /\ ret[c] \notin {"True", "False"} =>
                   /\ store.stored = base[c].stored
                   /\ (ret[c] # "InvalidFileError" => src[c] = c)

(* C13: once the counter has reached max_files, can_store is false for      *)
(* every size; and the number of files in the store never exceeds max_files *)
(* (an add_file of a new key on a full store places no file).               *)
C13_AdmissionEnforced ==
    /\ (files_stored >= store.max_files) =>
           \A free \in BOOLEAN, S \in 0..(MaxSize + 1) : ~can_store(free, S)
    /\ FilesInLeaves <= store.max_files

(* C17: after init_store the leaf directories exist, the call has returned  *)
(* its pair, and the counter equals count_stored().                         *)
C17_InitStoreSeedsCounter ==
    (store.init # "new") =>
        /\ store.init = "returned"
        /\ store.parent
        /\ count_stored.err = "none"
        /\ files_stored = count_stored.count

----------------------------------------------------------------------------
(* Properties of file_path and size_to_basex (PathSpec) *)

IsLowerHexString(k) == Len(k) > 0 /\ \A i \in 1..Len(k) : k[i] \in LowerHex

IsHexString(k) == Len(k) > 0 /\ \A i \in 1..Len(k) : IsHexDigit(k[i])

C15_OnlyHexKeysAccepted ==
    (fpcall.fn = "file_path" /\ fpout.err # "pending" /\ fpcall.size >= 0) =>
        /\ (fpout.err = "none") <=>
               (IsHexString(fpcall.key) /\ Len(fpcall.key) > fpcall.depth)
        /\ (IsHexString(fpcall.key) /\ Len(fpcall.key) <= fpcall.depth) =>
               fpout.err = "InvalidPath"
        /\ ~IsHexString(fpcall.key) => fpout.err = "ValueError"
        /\ (fpout.err = "none") =>
               \A i \in 1..Len(fpout.dirs) : fpout.dirs[i] \in LowerHex

(* the value of one character of base_text *)
DigitValue(ch) == CHOOSE v \in 0..(Len(base_text) - 1) : base_text[v + 1] = ch

(* the number a numeral over base_text stands for, most significant first *)
RECURSIVE Decode(_)
Decode(s) ==
    IF Len(s) = 0 THEN 0
    ELSE Decode(SubSeq(s, 1, Len(s) - 1)) * Len(base_text) + DigitValue(s[Len(s)])

(* C16: size_to_basex(S), S >= 0, is the canonical base-32 numeral of S     *)
(* over 0-9a-v: its characters are in the alphabet, it has no leading "0"   *)
(* unless it is the single character "0" (which is encode(0)), and decoding *)
(* it gives S.                                                              *)
C16_EncodingCanonical ==
    (fpcall.fn = "size_to_basex" /\ fpout.err # "pending") =>
        /\ Len(fpout.name) >= 1
        /\ \A i \in 1..Len(fpout.name) : \E v \in 1..Len(base_text) : base_text[v] = fpout.name[i]
        /\ Len(base_text) = 32
        /\ (Len(fpout.name) > 1) => fpout.name[1] # "0"
        /\ (fpcall.size = 0) => fpout.name = <<"0">>
        /\ Decode(fpout.name) = fpcall.size

(* C16 witness: a size of three base-32 digits was encoded *)
C16_Witness ==
    /\ fpcall.fn = "size_to_basex" /\ fpcall.size >= 32 * 32
    /\ fpout.err = "none" /\ Len(fpout.name) = 3

----------------------------------------------------------------------------
(* Properties of the buffer and its handles (BufSpec) *)

(* C18: save_bytes(data) on an open handle copies n = min(len(data),        *)
(* capacity) bytes to the start of the payload, sets the header and the     *)
(* handle's length to n and returns n, the region keeping its size; a       *)
(* snapshot that follows on the same handle is the first n bytes of data.   *)
C18_WriteThenSnapshot ==
    LET n == Min(Len(bres.data), BufCap)
    IN  /\ (bres.op = "save_bytes" /\ bres.err # "TypeError") =>
               /\ bres.err = "none"
               /\ bres.ret = n
               /\ load_size(bmem) = n
               /\ bsize[bres.h] = n
               /\ Len(bmem) = SzWidth + BufCap
               /\ \A i \in 1..n : bmem[SzWidth + i] = bres.data[i]
        /\ (bres.op \in {"snapshot", "load_bytes"} /\ bres.follows) =>
               bres.view = SubSeq(bres.data, 1, n)

(* C19: the length in the header and the length every handle holds are      *)
(* between 0 and the capacity, whatever operations have been called.        *)
C19_LengthWithinCapacity ==
    /\ (Len(bmem) > 0) => (load_size(bmem) >= 0 /\ load_size(bmem) <= BufCap)
    /\ \A h \in DOMAIN bsize : blife[h] # "none" => (bsize[h] >= 0 /\ bsize[h] <= BufCap)

(* C20: every close call returns and leaves the handle closed, a handle's   *)
(* mapping is detached once; the region is unlinked at most once, by the    *)
(* creator only; a dropped handle is closed, and unlinked if it is the      *)
(* creator's; a dropped SHMBufferSync has closed its buffer.                *)
C20_Lifecycle ==
    /\ bos.unlinks <= 1
    /\ \A h \in DOMAIN bh : ~bh[h].created => ~bh[h].unlinked
    /\ ~bos.registered => \E h \in DOMAIN bh : bh[h].created /\ bh[h].unlinked
    /\ bos.detaches = Cardinality({h \in DOMAIN bh : bh[h].closed})
    /\ (bres.op \in {"close", "sync.close"} /\ bres.h # 0) =>
           (bres.err = "none" /\ bh[bres.h].closed)
    /\ \A h \in DOMAIN bh :
           blife[h] = "dropped" =>
               /\ bh[h].closed
               /\ bh[h].created => (bh[h].unlinked /\ ~bos.registered)
    /\ (bsync.dropped /\ bsync.buffer # 0) => bh[bsync.buffer].closed

----------------------------------------------------------------------------
(* Further properties of the pipeline (PipeSpec) *)

----------------------------------------------------------------------------
(* Further properties of the directory store (StoreSpec) *)

(* the file at the destination is stored content: a file that was stored    *)
(* before the calls or a source renamed onto the destination, not a file    *)
(* that taking a lock created                                               *)
ContentAtDst == dst # 0 /\ dst <= OldFile

(* C22: the file a lock creates is never the file at the destination path   *)
(* (it is at "<dst>.lock"), and count_stored() is the number of content     *)
(* files in the store.                                                      *)
C22_LockFilesApart ==
    /\ (dst # 0) => ContentAtDst
    /\ count_stored.err = "none"
    /\ count_stored.count = store.others + (IF ContentAtDst THEN 1 ELSE 0)

(* C26: files_stored() is never negative, and when no call is under way it  *)
(* is the initial value of the counter plus the number of add_file calls    *)
(* that committed a file minus the number of remove_file calls that removed *)
(* one.                                                                     *)
C26_CounterTracksFiles ==
    /\ files_stored >= 0
    /\ (\A c \in Callers : cpc[c] \in {"idle", "done"}) =>
           files_stored = Cardinality({c \in committed : op[c] = "add"})
                              - Cardinality({c \in committed : op[c] = "remove"})

(* the barrier of the reader's round has tripped and released the reader    *)
ReaderReleased ==
    /\ Len(emitted) > rnd[0]
    /\ \/ pc[0] = "done"
       \/ pc[0] = "passing" /\ 0 \in barrier[BufOf(rnd[0])].draining

(* consumer c has arrived at the barrier of round k *)
Arrived(c, k) ==
    \/ rnd[c] > k
    \/ /\ rnd[c] = k
       /\ \/ pc[c] \in {"passing", "snap", "process"}
          \/ pc[c] = "done" /\ Len(observed[c]) > k

Wanted ==
    (IF cfg.file_magic \/ cfg.file_mime THEN 1 ELSE 0)
        + Cardinality({i \in DOMAIN cfg.args : cfg.args[i] \in system_hashers})

(* the barriers have 1 + Wanted parties: that many consumers are started    *)
(* and no barrier holds that many waiting parties without tripping          *)
PartyCount ==
    /\ max_threads = 1 + Wanted
    /\ Cardinality(DOMAIN pc \ {0}) = Wanted
    /\ \A b \in Buffers : Cardinality(barrier[b].arrived) < 1 + Wanted
    /\ \A i \in DOMAIN Procs : Procs[i] \in system_hashers \cup {"magic"}

(* C24: every barrier has exactly 1 + C parties, C being the classifier if  *)
(* wanted plus the requested labels of the system hash set (other labels    *)
(* start no consumer); with C = 0 the reader alone completes the call with  *)
(* a report that has the size and no consumer's key.                        *)
C24_PartiesAndLoneReader ==
    /\ PartyCount
    /\ (Wanted = 0 /\ hf.pc \in {"failed", "raised", "returned"}) =>
           /\ hf.pc = "returned"
           /\ "size" \in DOMAIN hf.report
           /\ hf.report["size"] = cfg.file_size
           /\ DOMAIN hf.report \subseteq {"size", "path"}

(* Properties of enum_sub_dirs (PathSpec) *)

RECURSIVE Pow16(_)
Pow16(n) == IF n = 0 THEN 1 ELSE 16 * Pow16(n - 1)

(* C25: enum_sub_dirs() with its defaults ends without an error and yields  *)
(* 16^D distinct paths, each D lower-case hex levels below the root; every  *)
(* parent directory file_path returns is one of them.                       *)
C25_EnumerationIsLeaves ==
    (fpcall.fn = "enum_sub_dirs" /\ enumout.err # "pending") =>
        /\ enumout.err = "none"
        /\ Len(enumout.paths) = Pow16(fpcall.depth)
        /\ \A i, j \in DOMAIN enumout.paths :
               enumout.paths[i] = enumout.paths[j] => i = j
        /\ \A i \in DOMAIN enumout.paths :
               /\ Len(enumout.paths[i]) = fpcall.depth
               /\ \A a \in 1..fpcall.depth : enumout.paths[i][a] \in LowerHex
        /\ \A k \in Keys :
               LET fp == file_path(k, 0, fpcall.depth)
               IN  fp.err = "none" =>
                       \E i \in DOMAIN enumout.paths : enumout.paths[i] = fp.dirs

====
